---- MODULE Spec2Model ----
(***************************************************************************)
(* A model of src/src/HtmlChopper.py: split_html and copy_css_folder.      *)
(*                                                                         *)
(* Markup is modelled as trees of nodes (tags and text) and, serialized,   *)
(* as sequences of tokens.  Identifiers that the program inspects          *)
(* character by character (element ids) are sequences of one-character     *)
(* strings; text nodes are sequences of characters too, so that strip()    *)
(* is computed.  The filesystem under the output directory is a function   *)
(* from paths to file contents.                                            *)
(***************************************************************************)
EXTENDS Integers, Sequences, FiniteSets, TLC

(***************************************************************************)
(* Bounds of the model.                                                    *)
(***************************************************************************)
\* children of the section element in the one-section documents
MaxKids == 3
\* top-level elements in the many-element documents
MaxElems == 2

(***************************************************************************)
(* Strings as sequences of characters.                                     *)
(***************************************************************************)
SectionPrefix == <<"s", "e", "c", "t", "i", "o", "n", "-">>

\* str.startswith
StartsWith(s, p) ==
    /\ Len(s) >= Len(p)
    /\ SubSeq(s, 1, Len(p)) = p

\* str.replace(old, new): every non-overlapping occurrence, left to right
RECURSIVE Replace(_, _, _)
Replace(s, old, new) ==
    IF Len(s) = 0 THEN <<>>
    ELSE IF StartsWith(s, old)
         THEN new \o Replace(SubSeq(s, Len(old) + 1, Len(s)), old, new)
         ELSE <<Head(s)>> \o Replace(Tail(s), old, new)

\* str.strip(): leading and trailing whitespace removed
RECURSIVE LStrip(_)
LStrip(s) ==
    IF Len(s) > 0 /\ Head(s) \in {" ", "\n"} THEN LStrip(Tail(s)) ELSE s

RECURSIVE RStrip(_)
RStrip(s) ==
    IF Len(s) > 0 /\ s[Len(s)] \in {" ", "\n"}
    THEN RStrip(SubSeq(s, 1, Len(s) - 1))
    ELSE s

Strip(s) == RStrip(LStrip(s))

(***************************************************************************)
(* The parsed tree (bs4 Tag and NavigableString).                          *)
(***************************************************************************)
QualifyingClass == "compendium-hr heading-anchor"

TagNode(name, class, id, kids) ==
    [kind |-> "tag", name |-> name, class |-> class, id |-> id,
     text |-> <<>>, kids |-> kids]

TextNode(chars) ==
    [kind |-> "text", name |-> "", class |-> "", id |-> <<>>,
     text |-> chars, kids |-> <<>>]

IsTag(n) == n.kind = "tag"

IsNavigableString(n) == n.kind = "text"

(***************************************************************************)
(* Serialization: str(tag) and str(soup) give markup, a sequence of tokens.*)
(***************************************************************************)
OpenTok(name, class, id) ==
    [t |-> "open", name |-> name, class |-> class, id |-> id, chars |-> <<>>]

CloseTok(name) ==
    [t |-> "close", name |-> name, class |-> "", id |-> <<>>, chars |-> <<>>]

TextTok(chars) ==
    [t |-> "text", name |-> "", class |-> "", id |-> <<>>, chars |-> chars]

DoctypeTok ==
    [t |-> "doctype", name |-> "html", class |-> "", id |-> <<>>, chars |-> <<>>]

RECURSIVE Ser(_), SerAll(_)
\* str(node)
Ser(n) ==
    IF IsNavigableString(n) THEN <<TextTok(n.text)>>
    ELSE <<OpenTok(n.name, n.class, n.id)>> \o SerAll(n.kids) \o <<CloseTok(n.name)>>

SerAll(ns) ==
    IF Len(ns) = 0 THEN <<>> ELSE Ser(Head(ns)) \o SerAll(Tail(ns))

\* str(BeautifulSoup(markup, 'html.parser')): parsing joins adjacent runs of
\* text into one string and an empty string yields no node
RECURSIVE Reparse(_)
Reparse(ts) ==
    IF Len(ts) = 0 THEN <<>>
    ELSE LET h == Head(ts)
             r == Reparse(Tail(ts))
         IN  IF h.t # "text" THEN <<h>> \o r
             ELSE IF Len(h.chars) = 0 THEN r
             ELSE IF Len(r) > 0 /\ r[1].t = "text"
                  THEN <<TextTok(h.chars \o r[1].chars)>> \o Tail(r)
                  ELSE <<h>> \o r

(***************************************************************************)
(* Tree navigation.  A node is addressed by its path of child indices.     *)
(***************************************************************************)
RECURSIVE NodeAtRef(_, _)
NodeAtRef(kids, ref) ==
    IF Len(ref) = 1 THEN kids[ref[1]]
    ELSE NodeAtRef(kids[ref[1]].kids, Tail(ref))

\* the child list that holds the node at ref
SiblingsOf(kids, ref) ==
    IF Len(ref) = 1 THEN kids
    ELSE NodeAtRef(kids, SubSeq(ref, 1, Len(ref) - 1)).kids

\* every tag below, in document order (find_all's traversal)
RECURSIVE Descendants(_, _, _)
Descendants(kids, i, prefix) ==
    IF i > Len(kids) THEN <<>>
    ELSE (IF IsTag(kids[i])
          THEN <<prefix \o <<i>>>> \o Descendants(kids[i].kids, 1, prefix \o <<i>>)
          ELSE <<>>)
         \o Descendants(kids, i + 1, prefix)

\* the id filter of soup.find_all: lambda x: x and x.startswith('section-')
IdFilter(id) == Len(id) > 0 /\ StartsWith(id, SectionPrefix)

\* soup.find_all(id=...)
FindSections(d) ==
    SelectSeq(Descendants(d.elems, 1, <<>>),
              LAMBDA r : IdFilter(NodeAtRef(d.elems, r).id))

\* the filter of section.find_all('h2', class_="compendium-hr heading-anchor")
H2Filter(n) == IsTag(n) /\ n.name = "h2" /\ n.class = QualifyingClass

\* section.find_all('h2', class_=...): refs relative to the section element
FindH2Tags(section) ==
    SelectSeq(Descendants(section.kids, 1, <<>>),
              LAMBDA r : H2Filter(NodeAtRef(section.kids, r)))

\* find_next_sibling() with no filter: the next sibling that is a Tag, 0 for None
FindNextSibling(sibs, i) ==
    LET later == {j \in (i + 1)..Len(sibs) : IsTag(sibs[j])}
    IN  IF later = {} THEN 0
        ELSE CHOOSE j \in later : \A k \in later : j <= k

\* the while loop that gathers the content after an h2
RECURSIVE WalkFrom(_, _, _)
WalkFrom(sibs, i, acc) ==
    LET n == FindNextSibling(sibs, i)
    IN  IF n = 0 THEN [content |-> acc, stop |-> 0]
        ELSE IF IsNavigableString(sibs[n])
             THEN WalkFrom(sibs, n, acc \o <<TextTok(Strip(sibs[n].text))>>)
        ELSE IF sibs[n].name = "h2" THEN [content |-> acc, stop |-> n]
        ELSE WalkFrom(sibs, n, acc \o Ser(sibs[n]))

\* content = [str(h2_tag)] followed by the walk; ''.join(content)
GatherContent(section, ref) ==
    LET sibs == SiblingsOf(section.kids, ref)
        at   == ref[Len(ref)]
    IN  WalkFrom(sibs, at, Ser(sibs[at]))

(***************************************************************************)
(* Output paths, relative to output_dir.  A path is                        *)
(*   <snum>_<sname>/[subsections/][<asset folder>/]<file>                  *)
(* where <file> is <name>.html (kind "html"), <num>_<name>.html (kind      *)
(* "sub") or a file of the asset folder (kind "asset").                    *)
(***************************************************************************)
\* section_id.replace('section-', '')
SectionFolderName(section_id) == Replace(section_id, SectionPrefix, <<>>)

SectionFolderUnnumbered(section_num, section_folder_name) ==
    [snum |-> 0, sname |-> section_folder_name, sub |-> FALSE]

\* os.path.join(output_dir, f"{section_num:03d}_{section_folder_name}")
SectionFolder(section_num, section_folder_name) ==
    [snum |-> section_num, sname |-> section_folder_name, sub |-> FALSE]

\* os.path.join(section_folder, 'subsections')
SubsectionFolder(folder) == [folder EXCEPT !.sub = TRUE]

\* os.path.join(section_folder, f"{section_folder_name}.html")
SectionFile(folder, section_folder_name) ==
    [snum |-> folder.snum, sname |-> folder.sname, sub |-> FALSE, css |-> FALSE,
     kind |-> "html", num |-> 0, name |-> section_folder_name]

\* os.path.join(subsection_folder, f"{subsection_num:03d}_{subsection_id}.html")
SubsectionFile(folder, subsection_num, subsection_id) ==
    [snum |-> folder.snum, sname |-> folder.sname, sub |-> TRUE, css |-> FALSE,
     kind |-> "sub", num |-> subsection_num, name |-> subsection_id]

\* h2_tag.get('id', None) or f"subsection-{hash(h2_tag)}"
SubsectionId(h2_tag, hash) ==
    IF Len(h2_tag.id) > 0 THEN h2_tag.id ELSE <<"subsection-", hash>>

\* the values hash(h2_tag) may take: it varies from one process to the next
HashValues == {"hashA", "hashB"}

(***************************************************************************)
(* The filesystem below output_dir: a function from paths to contents.     *)
(***************************************************************************)
WriteFile(files, path, content) ==
    [p \in DOMAIN files \cup {path} |-> IF p = path THEN content ELSE files[p]]

Remove(files, gone) == [p \in DOMAIN files \ gone |-> files[p]]

\* p lies in directory dir or below it
Under(p, dir) ==
    /\ p.snum = dir.snum
    /\ p.sname = dir.sname
    /\ dir.sub => p.sub

\* the asset folder as given on the command line: "plain" (css), "trailing"
\* (css/, whose basename is empty) or "missing" (no such directory)
CssDirs == {"plain", "trailing", "missing"}

\* target_css_dir = os.path.join(target_dir, os.path.basename(css_dir)):
\* the paths of the filesystem in it or below it
TargetCssDir(files, css_dir, target_dir) ==
    IF css_dir = "trailing"
    THEN {p \in DOMAIN files : Under(p, target_dir)}
    ELSE {p \in DOMAIN files : Under(p, target_dir) /\ p.sub = target_dir.sub /\ p.css}

\* os.path.exists(target_css_dir); target_dir itself has been made before
TargetExists(files, css_dir, target_dir) ==
    css_dir = "trailing" \/ TargetCssDir(files, css_dir, target_dir) # {}

\* if os.path.exists(target_css_dir): shutil.rmtree(target_css_dir)
RmTree(files, css_dir, target_dir) ==
    IF TargetExists(files, css_dir, target_dir)
    THEN Remove(files, TargetCssDir(files, css_dir, target_dir))
    ELSE files

AssetFile(css_dir, target_dir) ==
    [snum |-> target_dir.snum, sname |-> target_dir.sname, sub |-> target_dir.sub,
     css |-> (css_dir # "trailing"), kind |-> "asset", num |-> 0,
     name |-> <<"style.css">>]

\* shutil.copytree(css_dir, target_css_dir); raises when css_dir is missing
CopyTree(files, css_dir, target_dir) ==
    IF css_dir = "missing" THEN [ok |-> FALSE, files |-> files]
    ELSE [ok |-> TRUE,
          files |-> WriteFile(files, AssetFile(css_dir, target_dir), <<>>)]

copy_css_folder(files, css_dir, target_dir) ==
    CopyTree(RmTree(files, css_dir, target_dir), css_dir, target_dir)

(***************************************************************************)
(* The text written to a file.                                             *)
(***************************************************************************)
Newline == TextTok(<<"\n">>)

\* str(head.prettify()) of the head element
Prettify == <<OpenTok("head", "", <<>>), Newline, CloseTok("head"), Newline>>

\* lines 93-94: {doctype}\n<html>{head_content}<body>{str(section)}</body></html>
SectionTextWithHead(head_text, section) ==
    <<DoctypeTok, Newline, OpenTok("html", "", <<>>)>> \o head_text
    \o <<OpenTok("body", "", <<>>)>> \o Ser(section)
    \o <<CloseTok("body"), CloseTok("html")>>

\* lines 97-98: {doctype}\n<html ><head></head><body>{str(section)}</body></html>
SectionTextNoHead(section) ==
    <<DoctypeTok, Newline, OpenTok("html", "", <<>>),
      OpenTok("head", "", <<>>), CloseTok("head"), OpenTok("body", "", <<>>)>>
    \o Ser(section) \o <<CloseTok("body"), CloseTok("html")>>

\* lines 137-138: {doctype}\n{head_content}<body>{str(subsection_soup)}</body></html>
SubsectionText(head_text, subsection_soup) ==
    <<DoctypeTok, Newline>> \o head_text
    \o <<OpenTok("body", "", <<>>)>> \o subsection_soup
    \o <<CloseTok("body"), CloseTok("html")>>

(***************************************************************************)
(* The inputs: documents, the asset folder argument.                       *)
(***************************************************************************)
Chars(a, b) == <<a, b>>

H2Heading == TagNode("h2", QualifyingClass, Chars("h", "1"), <<TextNode(<<"A">>)>>)

H2NoId == TagNode("h2", QualifyingClass, <<>>, <<TextNode(<<"B">>)>>)

H2OtherClass == TagNode("h2", "heading-anchor", Chars("h", "3"), <<TextNode(<<"C">>)>>)

Paragraph == TagNode("p", "", <<>>, <<TextNode(<<"x">>)>>)

PaddedText == TextNode(<<" ", "t", " ">>)

Wrapper ==
    TagNode("div", "", <<>>,
            <<TagNode("h2", QualifyingClass, Chars("h", "2"), <<TextNode(<<"D">>)>>),
              TextNode(<<"u">>), Paragraph>>)

NodeKinds == {H2Heading, H2NoId, H2OtherClass, Paragraph, PaddedText, Wrapper}

\* ids of top-level elements: none, sec-a, section-a, section- and
\* section-a-section-b
ElemIds ==
    {<<>>,
     <<"s", "e", "c", "-", "a">>,
     SectionPrefix \o <<"a">>,
     SectionPrefix,
     SectionPrefix \o <<"a", "-">> \o SectionPrefix \o <<"b">>}

SeqsUpTo(S, n) == UNION {[1..k -> S] : k \in 0..n}

\* what a parser can give: a run of text is one node, never two in a row
Parsed(ks) ==
    \A i \in 1..(Len(ks) - 1) :
        ~(IsNavigableString(ks[i]) /\ IsNavigableString(ks[i + 1]))

\* one section with up to MaxKids children of every kind
OneSectionDocs ==
    {<<TagNode("div", "", SectionPrefix \o <<"a">>, ks)>> :
        ks \in {c \in SeqsUpTo(NodeKinds, MaxKids) : Parsed(c)}}

\* up to MaxElems top-level elements of every id, each empty or with a heading
ManyElementDocs ==
    SeqsUpTo({TagNode("div", "", id, ks) :
                 id \in ElemIds, ks \in {<<>>, <<H2Heading>>}}, MaxElems)

Documents ==
    {[head |-> h, elems |-> es] :
        h \in BOOLEAN, es \in OneSectionDocs \cup ManyElementDocs}

(***************************************************************************)
(* The state of a run of split_html.                                       *)
(***************************************************************************)
VARIABLES
    input_exists,   \* whether input_file can be opened
    document,       \* what BeautifulSoup(file, 'html.parser') gives
    css_dir,        \* the asset folder argument
    run,            \* "first" or "second" run on the same arguments
    pc,             \* "start", "sections", "subsections", "done", "failed"
    err,            \* the exception that ended the run, "none" if none
    head_content,   \* [bound, text]: the local is unbound when there is no head
    sections,       \* soup.find_all(id=...)
    section_num,
    section_folder,
    h2_tags,        \* section.find_all('h2', class_=...)
    subsection_num,
    fs,             \* the files below output_dir
    log,            \* the file writes this run completed, in order
    previous        \* what the first run wrote: path -> text

vars ==
    <<input_exists, document, css_dir, run, pc, err, head_content, sections,
      section_num, section_folder, h2_tags, subsection_num, fs, log, previous>>

inputs == <<input_exists, document, css_dir>>

NoFiles == [p \in {} |-> <<>>]

NoFolder == SectionFolder(0, <<>>)

Unbound == [bound |-> FALSE, text |-> <<>>]

Init ==
    /\ input_exists \in BOOLEAN
    /\ document \in Documents
    /\ css_dir \in CssDirs
    /\ run = "first"
    /\ pc = "start"
    /\ err = "none"
    /\ head_content = Unbound
    /\ sections = <<>>
    /\ section_num = 0
    /\ section_folder = NoFolder
    /\ h2_tags = <<>>
    /\ subsection_num = 0
    /\ fs = NoFiles
    /\ log = <<>>
    /\ previous = NoFiles

\* what the run wrote: path -> the text last written there
Outputs(l) ==
    [p \in {l[i].path : i \in 1..Len(l)} |->
        LET last == CHOOSE i \in 1..Len(l) :
                        /\ l[i].path = p
                        /\ \A j \in 1..Len(l) : l[j].path = p => j <= i
        IN  l[last].text]

\* how a filesystem call of a step may end: "ok", or the call that raises
IoOutcomes == {"ok", "makedirs", "copytree", "open"}

Raise(e) ==
    /\ pc' = "failed"
    /\ err' = e

\* lines 64-74: open and parse the input, find the head and the sections
Load ==
    /\ pc = "start"
    /\ IF ~input_exists
       THEN /\ Raise("FileNotFoundError: input_file")
            /\ UNCHANGED <<head_content, sections>>
       ELSE /\ pc' = "sections"
            /\ err' = "none"
            /\ head_content' = IF document.head
                               THEN [bound |-> TRUE, text |-> Prettify]
                               ELSE Unbound
            /\ sections' = FindSections(document)
    /\ section_num' = 0
    /\ UNCHANGED <<inputs, run, section_folder, h2_tags, subsection_num,
                   fs, log, previous>>

SubsectionNumCarriedOver(num) == num

\* subsection_num = 0 at line 102
FirstSubsectionNum(num) == 0

\* lines 75-103: one iteration of the loop over sections, up to the h2 loop
BeginSection ==
    /\ pc = "sections"
    /\ section_num < Len(sections)
    /\ \E io \in IoOutcomes :
        LET num     == section_num + 1
            ref     == sections[num]
            section == NodeAtRef(document.elems, ref)
            name    == SectionFolderName(section.id)
            folder  == SectionFolder(num, name)
            removed == RmTree(fs, css_dir, folder)
            copied  == CopyTree(removed, css_dir, folder)
            file    == SectionFile(folder, name)
            text    == IF head_content.bound
                       THEN SectionTextWithHead(head_content.text, section)
                       ELSE SectionTextNoHead(section)
        IN  /\ section_num' = num
            /\ section_folder' = folder
            /\ IF io = "makedirs"
               THEN /\ Raise("OSError")
                    /\ UNCHANGED <<fs, log, h2_tags, subsection_num>>
               ELSE IF io = "copytree" \/ ~copied.ok
               THEN /\ Raise(IF io = "copytree" THEN "OSError"
                             ELSE "FileNotFoundError: css_dir")
                    /\ fs' = removed
                    /\ UNCHANGED <<log, h2_tags, subsection_num>>
               ELSE IF io = "open"
               THEN /\ Raise("OSError")
                    /\ fs' = copied.files
                    /\ UNCHANGED <<log, h2_tags, subsection_num>>
               ELSE /\ fs' = WriteFile(copied.files, file, text)
                    /\ log' = Append(log, [path |-> file, section |-> ref,
                                           h2 |-> <<>>, stop |-> 0,
                                           body |-> Ser(section), text |-> text])
                    /\ h2_tags' = FindH2Tags(section)
                    /\ subsection_num' = FirstSubsectionNum(subsection_num)
                    /\ pc' = "subsections"
                    /\ UNCHANGED err
    /\ UNCHANGED <<inputs, run, head_content, sections, previous>>

\* lines 104-139: one iteration of the loop over the h2 tags of the section
BeginSubsection ==
    /\ pc = "subsections"
    /\ subsection_num < Len(h2_tags)
    /\ \E io \in IoOutcomes, hash \in HashValues :
        LET num     == subsection_num + 1
            section == NodeAtRef(document.elems, sections[section_num])
            ref     == h2_tags[num]
            h2_tag  == NodeAtRef(section.kids, ref)
            id      == SubsectionId(h2_tag, hash)
            walk    == GatherContent(section, ref)
            folder  == SubsectionFolder(section_folder)
            file    == SubsectionFile(folder, num, id)
            soup    == Reparse(walk.content)
            removed == RmTree(fs, css_dir, folder)
            copied  == CopyTree(removed, css_dir, folder)
        IN  /\ subsection_num' = num
            /\ IF io = "makedirs"
               THEN /\ Raise("OSError")
                    /\ UNCHANGED <<fs, log>>
               ELSE IF io = "copytree" \/ ~copied.ok
               THEN /\ Raise(IF io = "copytree" THEN "OSError"
                             ELSE "FileNotFoundError: css_dir")
                    /\ fs' = removed
                    /\ UNCHANGED log
               ELSE IF io = "open"
               THEN /\ Raise("OSError")
                    /\ fs' = copied.files
                    /\ UNCHANGED log
               ELSE IF ~head_content.bound
               THEN \* open() has made the file; reading head_content raises
                    /\ Raise("UnboundLocalError")
                    /\ fs' = WriteFile(copied.files, file, <<>>)
                    /\ UNCHANGED log
               ELSE LET text == SubsectionText(head_content.text, soup)
                    IN  /\ fs' = WriteFile(copied.files, file, text)
                        /\ log' = Append(log, [path |-> file,
                                               section |-> sections[section_num],
                                               h2 |-> ref, stop |-> walk.stop,
                                               body |-> soup, text |-> text])
                        /\ UNCHANGED <<pc, err>>
    /\ UNCHANGED <<inputs, run, head_content, sections, section_num,
                   section_folder, h2_tags, previous>>

\* the loop over h2_tags is exhausted
EndSection ==
    /\ pc = "subsections"
    /\ subsection_num = Len(h2_tags)
    /\ pc' = "sections"
    /\ UNCHANGED <<inputs, run, err, head_content, sections, section_num,
                   section_folder, h2_tags, subsection_num, fs, log, previous>>

\* line 141: the loop over sections is exhausted
Finish ==
    /\ pc = "sections"
    /\ section_num = Len(sections)
    /\ pc' = "done"
    /\ UNCHANGED <<inputs, run, err, head_content, sections, section_num,
                   section_folder, h2_tags, subsection_num, fs, log, previous>>

\* the program is started again, in a new process, on the same arguments
\* and the output directory the first run left
RunAgain ==
    /\ pc = "done"
    /\ run = "first"
    /\ run' = "second"
    /\ previous' = Outputs(log)
    /\ pc' = "start"
    /\ head_content' = Unbound
    /\ sections' = <<>>
    /\ section_num' = 0
    /\ section_folder' = NoFolder
    /\ h2_tags' = <<>>
    /\ subsection_num' = 0
    /\ log' = <<>>
    /\ UNCHANGED <<inputs, err, fs>>

Next ==
    \/ Load
    \/ BeginSection
    \/ BeginSubsection
    \/ EndSection
    \/ Finish
    \/ RunAgain

Spec == Init /\ [][Next]_vars

(***************************************************************************)
(* Notions the properties are stated with.                                 *)
(***************************************************************************)
SubsectionEntry(e) == Len(e.h2) > 0

SectionEntry(e) == Len(e.h2) = 0

SectionOf(e) == NodeAtRef(document.elems, e.section)

\* r comes before q in document order
RECURSIVE Before(_, _)
Before(r, q) ==
    IF Len(r) = 0 THEN Len(q) > 0
    ELSE IF Len(q) = 0 THEN FALSE
    ELSE IF r[1] # q[1] THEN r[1] < q[1]
    ELSE Before(Tail(r), Tail(q))

Range(f) == {f[i] : i \in DOMAIN f}

\* 1-based position of r in document order among the refs of S
Rank(r, S) == Cardinality({q \in S : Before(q, r)}) + 1

\* the section boundaries and the qualifying h2 of a section, as sets
Boundaries == Range(FindSections(document))

Qualifying(section) == Range(FindH2Tags(section))

\* the number of section files among the first i writes
SectionsWritten(i) == Cardinality({k \in 1..i : SectionEntry(log[k])})

\* the position of the latest section file among the first i writes
LatestSection(i) ==
    CHOOSE s \in 1..i :
        /\ SectionEntry(log[s])
        /\ \A k \in (s + 1)..i : SubsectionEntry(log[k])

\* the text between <body> and </body></html>
BodyOf(text) ==
    LET open == CHOOSE i \in 1..Len(text) :
                    /\ text[i] = OpenTok("body", "", <<>>)
                    /\ \A j \in 1..(i - 1) : text[j] # OpenTok("body", "", <<>>)
    IN  SubSeq(text, open + 1, Len(text) - 2)

EmptyHead == <<OpenTok("head", "", <<>>), CloseTok("head")>>

\* doctype, <html>, head, <body>, the content, </body>, </html>
Standalone(head, body) ==
    <<DoctypeTok, Newline, OpenTok("html", "", <<>>)>> \o head
    \o <<OpenTok("body", "", <<>>)>> \o body
    \o <<CloseTok("body"), CloseTok("html")>>

\* the characters of [A-Za-z0-9-] among those the ids of the model use
AlnumHyphen == {"a", "b", "c", "e", "i", "n", "o", "s", "t", "-"}

\* ^section-[A-Za-z0-9-]+$
MatchesSectionPattern(id) ==
    /\ StartsWith(id, SectionPrefix)
    /\ Len(id) > Len(SectionPrefix)
    /\ \A i \in (Len(SectionPrefix) + 1)..Len(id) : id[i] \in AlnumHyphen

\* the <name> of section-<name>
NamePart(id) == SubSeq(id, Len(SectionPrefix) + 1, Len(id))

\* the first sibling after position at that is a qualifying h2, 0 if none
NextQualifying(sibs, at) ==
    LET later == {j \in (at + 1)..Len(sibs) : H2Filter(sibs[j])}
    IN  IF later = {} THEN 0
        ELSE CHOOSE j \in later : \A k \in later : j <= k

SiblingsOfEntry(e) == SiblingsOf(SectionOf(e).kids, e.h2)

(***************************************************************************)
(* C1: the sibling walk of every subsection written stops at the first     *)
(* following sibling that is a qualifying h2 (tag h2 with the class        *)
(* "compendium-hr heading-anchor"), or when the siblings are exhausted,    *)
(* and at no other sibling: an h2 without that class does not end it.      *)
(***************************************************************************)
C1_StopsOnlyAtQualifyingH2 ==
    \A i \in 1..Len(log) :
        SubsectionEntry(log[i]) =>
            log[i].stop =
                NextQualifying(SiblingsOfEntry(log[i]), log[i].h2[Len(log[i].h2)])

(***************************************************************************)
(* C2: the body of every subsection file written is the heading followed   *)
(* by every sibling node between it and the stop point of the walk, in     *)
(* order, text nodes as well as elements, the text verbatim.               *)
(***************************************************************************)
C2_CapturesEverySiblingVerbatim ==
    \A i \in 1..Len(log) :
        SubsectionEntry(log[i]) =>
            LET sibs == SiblingsOfEntry(log[i])
                at   == log[i].h2[Len(log[i].h2)]
                end  == IF log[i].stop = 0 THEN Len(sibs) ELSE log[i].stop - 1
            IN  BodyOf(log[i].text) = SerAll(SubSeq(sibs, at, end))

(***************************************************************************)
(* C3: when the document has no head element an empty head is substituted  *)
(* in every fragment: no step fails for want of the head, and every file   *)
(* written, section or subsection, is a complete document with an empty    *)
(* head.                                                                   *)
(***************************************************************************)
C3_NoHeadGivesEmptyHead ==
    ~document.head =>
        /\ err # "UnboundLocalError"
        /\ \A i \in 1..Len(log) :
               log[i].text = Standalone(EmptyHead, BodyOf(log[i].text))

(***************************************************************************)
(* C4: every file written, section file or subsection file, is doctype,    *)
(* html-open, head, body holding exactly the captured content of that      *)
(* fragment, html-close, in that order and each once.                      *)
(***************************************************************************)
C4_EveryFileIsStandalone ==
    \A i \in 1..Len(log) :
        \E head \in {Prettify, EmptyHead} :
            log[i].text = Standalone(head, log[i].body)

(***************************************************************************)
(* C5: once the document is loaded, the section boundaries are exactly the *)
(* elements whose id matches ^section-[A-Za-z0-9-]+$, in document order,   *)
(* and the file of each is named by the <name> part of section-<name>.     *)
(***************************************************************************)
C5_BoundariesMatchPattern ==
    pc \in {"sections", "subsections", "done"} =>
        /\ sections =
               SelectSeq(Descendants(document.elems, 1, <<>>),
                         LAMBDA r : MatchesSectionPattern(
                                        NodeAtRef(document.elems, r).id))
        /\ \A i \in 1..Len(log) :
               SectionEntry(log[i]) =>
                   /\ log[i].path.sname = NamePart(SectionOf(log[i]).id)
                   /\ log[i].path.name = NamePart(SectionOf(log[i]).id)

(***************************************************************************)
(* C6: only a failure to load the input aborts a run; a failure while a    *)
(* fragment is emitted (making its directory, copying the asset folder,    *)
(* writing its file) or a missing asset folder does not.                   *)
(***************************************************************************)
C6_OnlyLoadFailuresAbort ==
    pc = "failed" => err = "FileNotFoundError: input_file"

(***************************************************************************)
(* C7: a second run on the same input, output directory and asset folder   *)
(* writes the same paths with the same contents as the first.              *)
(***************************************************************************)
C7_SecondRunWritesTheSame ==
    (run = "second" /\ pc = "done") => Outputs(log) = previous

(***************************************************************************)
(* C8: the files are written in document order: the k-th section boundary  *)
(* is written k-th among the section files, with ordinal k; the j-th       *)
(* qualifying h2 of a section is written j-th after that section's file,   *)
(* with ordinal j, and before the file of the next section; a completed    *)
(* run has written them all.                                               *)
(***************************************************************************)
C8_WritesInDocumentOrder ==
    /\ \A i \in 1..Len(log) :
           /\ SectionsWritten(i) >= 1
           /\ Rank(log[i].section, Boundaries) = SectionsWritten(i)
           /\ log[i].path.snum = SectionsWritten(i)
           /\ SubsectionEntry(log[i]) =>
                  /\ log[i].section = log[LatestSection(i)].section
                  /\ log[i].h2 \in Qualifying(SectionOf(log[i]))
                  /\ Rank(log[i].h2, Qualifying(SectionOf(log[i])))
                         = i - LatestSection(i)
                  /\ log[i].path.num = i - LatestSection(i)
    /\ pc = "done" =>
           /\ {log[i].section : i \in 1..Len(log)} = Boundaries
           /\ \A r \in Boundaries :
                  {log[i].h2 : i \in {k \in 1..Len(log) :
                        log[k].section = r /\ SubsectionEntry(log[k])}}
                      = Qualifying(NodeAtRef(document.elems, r))

\* a completed run that wrote subsections of two different sections
C8_Witness ==
    /\ pc = "done"
    /\ \E i, j \in 1..Len(log) :
           /\ SubsectionEntry(log[i])
           /\ SubsectionEntry(log[j])
           /\ log[i].section # log[j].section

(***************************************************************************)
(* C9: a completed run on a document with N section boundaries leaves      *)
(* exactly N section directories, each with exactly one top-level HTML     *)
(* file, whose body is that section's own element; no section file is      *)
(* written over by a later section, also when two sections share a name.   *)
(***************************************************************************)
SectionWrites == SelectSeq(log, SectionEntry)

C9_OneDirectoryPerSection ==
    pc = "done" =>
        /\ Len(SectionWrites) = Cardinality(Boundaries)
        /\ Cardinality({<<p.snum, p.sname>> : p \in DOMAIN fs})
               = Cardinality(Boundaries)
        /\ \A p \in DOMAIN fs :
               Cardinality({q \in DOMAIN fs :
                               /\ q.snum = p.snum
                               /\ q.sname = p.sname
                               /\ ~q.sub
                               /\ ~q.css
                               /\ q.kind = "html"}) = 1
        /\ \A k \in 1..Len(SectionWrites) :
               /\ SectionWrites[k].path \in DOMAIN fs
               /\ BodyOf(fs[SectionWrites[k].path]) = Ser(SectionOf(SectionWrites[k]))
               /\ \A m \in 1..Len(SectionWrites) :
                      SectionWrites[m].path = SectionWrites[k].path => m = k

\* a completed run over two sections with the same name
C9_Witness ==
    /\ pc = "done"
    /\ \E k, m \in 1..Len(SectionWrites) :
           /\ k # m
           /\ SectionWrites[k].path.sname = SectionWrites[m].path.sname

(***************************************************************************)
(* C10: a completed run on an empty output directory leaves, for every     *)
(* section with M qualifying h2 elements, exactly M subsection files in    *)
(* that section's subsections directory; none when M = 0, and the section  *)
(* file in any case.                                                       *)
(***************************************************************************)
C10_OneFilePerQualifyingH2 ==
    (run = "first" /\ pc = "done") =>
        \A k \in 1..Len(SectionWrites) :
            LET file == SectionWrites[k].path
            IN  /\ file \in DOMAIN fs
                /\ Cardinality({p \in DOMAIN fs :
                                   /\ p.snum = file.snum
                                   /\ p.sname = file.sname
                                   /\ p.sub
                                   /\ p.kind = "sub"})
                       = Cardinality(Qualifying(SectionOf(SectionWrites[k])))

====
